---- MODULE Spec2Model ----
(***************************************************************************)
(* A model of the dmsql dialect adapter (src/dialect_dmsql.go).            *)
(*                                                                         *)
(* The adapter is a set of request/response operations.  Each operation is *)
(* an operator that computes what the Go code computes, and each           *)
(* operation has a specification of its own whose Init draws the inputs    *)
(* from bounded sets and whose actions are the calls:                      *)
(*     SpecDataType   DataTypeOf, called repeatedly on one field           *)
(*     SpecLimit      LimitAndOffsetSQL                                    *)
(*     SpecKey        BuildKeyName                                         *)
(*     SpecIndex      NormalizeIndexAndColumn                              *)
(*     SpecHas        HasTable, HasIndex, HasColumn, HasForeignKey         *)
(*                                                                         *)
(* Strings.  A Go string that is handled word by word (a SQL type, a tag   *)
(* value) is the sequence strings.Split(s, " ") of its words, so the empty *)
(* string is <<"">>, a + " " + b is a \o b, and a + b joins the last word  *)
(* of a to the first word of b.  A Go string that is handled character by  *)
(* character (a key name, an index name, a number to parse) is the         *)
(* sequence of its runes.                                                  *)
(***************************************************************************)
EXTENDS Integers, Sequences, FiniteSets, TLC

VARIABLES
    field,      \* the *StructField handed to DataTypeOf
    field0,     \* history: the field as it was before the first call
    dtLast,     \* outcome of the latest DataTypeOf call
    dtPrev,     \* outcome of the call before the latest
    dtCalls,    \* number of DataTypeOf calls made
    limIn,      \* arguments of LimitAndOffsetSQL
    limOut,     \* its outcome
    keyIn,      \* arguments of BuildKeyName
    keyOut,     \* its outcome
    keyCalls,   \* number of BuildKeyName calls made
    idxIn,      \* arguments of NormalizeIndexAndColumn
    idxOut,     \* its outcome
    catalog,    \* the database's system catalog, as the count per query
    hasOut      \* outcome of the latest Has* call

dtVars  == <<field, field0, dtLast, dtPrev, dtCalls>>
limVars == <<limIn, limOut>>
keyVars == <<keyIn, keyOut, keyCalls>>
idxVars == <<idxIn, idxOut>>
hasVars == <<catalog, hasOut>>
vars    == <<dtVars, limVars, keyVars, idxVars, hasVars>>

(***************************************************************************)
(* Word strings                                                            *)
(***************************************************************************)
Empty == <<"">>

Lit(w) == <<w>>

\* a + b
Cat(a, b) == SubSeq(a, 1, Len(a) - 1) \o <<a[Len(a)] \o b[1]>> \o Tail(b)

\* a + " " + b, also fmt.Sprintf("%v %v", a, b)
JoinSp(a, b) == a \o b

RECURSIVE DropLeadingBlank(_)
DropLeadingBlank(s) ==
    IF Len(s) > 1 /\ Head(s) = "" THEN DropLeadingBlank(Tail(s)) ELSE s

RECURSIVE DropTrailingBlank(_)
DropTrailingBlank(s) ==
    IF Len(s) > 1 /\ s[Len(s)] = ""
    THEN DropTrailingBlank(SubSeq(s, 1, Len(s) - 1))
    ELSE s

\* strings.TrimSpace
TrimSpace(s) == DropTrailingBlank(DropLeadingBlank(s))

\* strings.ToLower, on the words the model uses
LowerWord(w) ==
    CASE w = "FALSE" -> "false"
      [] w = "False" -> "false"
      [] w = "TRUE" -> "true"
      [] w = "AUTO_INCREMENT" -> "auto_increment"
      [] OTHER -> w

ToLower(s) == [i \in 1..Len(s) |-> LowerWord(s[i])]

\* strings.Contains(s, "AUTO_INCREMENT"): the words of the model either are
\* that word or do not hold it.
ContainsAutoIncrement(s) == \E i \in 1..Len(s) : s[i] = "AUTO_INCREMENT"

\* strings.HasSuffix(s, "AUTO_INCREMENT")
EndsInAutoIncrement(s) == s[Len(s)] = "AUTO_INCREMENT"

(***************************************************************************)
(* StructField                                                             *)
(***************************************************************************)
TagKeys == {"AUTO_INCREMENT", "INDEX", "TYPE", "SIZE", "NOT NULL", "PRECISION", "DEFAULT"}

TagSettingsGet(f, key) ==
    [ok    |-> key \in DOMAIN f.TagSettings,
     value |-> IF key \in DOMAIN f.TagSettings THEN f.TagSettings[key] ELSE Empty]

TagSettingsSet(f, key, value) ==
    [f EXCEPT !.TagSettings =
        [k \in (DOMAIN f.TagSettings) \cup {key} |->
            IF k = key THEN value ELSE f.TagSettings[k]]]

TagSettingsDelete(f, key) ==
    [f EXCEPT !.TagSettings =
        [k \in (DOMAIN f.TagSettings) \ {key} |-> f.TagSettings[k]]]

\* reflect kinds of the field's value, with the type where the code asks for it
IntKinds == {"Int8", "Int16", "Int32", "Int", "Int64",
             "Uint8", "Uint16", "Uint32", "Uint", "Uintptr", "Uint64"}

DataValues ==
    [Kind : {"Bool", "Float32", "Float64", "String", "Map"} \cup IntKinds,
     Type : {"builtin"}]
    \cup [Kind : {"Struct"}, Type : {"time.Time", "other"}]
    \cup [Kind : {"Slice", "Array"}, Type : {"uint8", "int"}]

\* IsByteArrayOrSlice (utils.go)
IsByteArrayOrSlice(dv) == dv.Kind \in {"Slice", "Array"} /\ dv.Type = "uint8"

(***************************************************************************)
(* ParseFieldStructForDialect and the base dialect's eligibility rule      *)
(***************************************************************************)
DefaultSize == 255
SizeInts == {-1, 0, 1, 100, DefaultSize, 65531, 65532, 65533}

\* strconv.Atoi of a one-word string: the integer it is the decimal form of,
\* 0 when it is none
Atoi(s) ==
    IF Len(s) = 1 /\ \E n \in SizeInts : ToString(n) = s[1]
    THEN CHOOSE n \in SizeInts : ToString(n) = s[1]
    ELSE 0

ParseFieldStructForDialect(f) ==
    LET typ     == TagSettingsGet(f, "TYPE")
        num     == TagSettingsGet(f, "SIZE")
        notNull == TagSettingsGet(f, "NOT NULL")
        dflt    == TagSettingsGet(f, "DEFAULT")
        add0    == JoinSp(notNull.value, Empty)
        add1    == IF dflt.ok
                   THEN Cat(add0, Cat(<<"", "DEFAULT", "">>, dflt.value))
                   ELSE add0
    IN  [dataValue      |-> f.Value,
         sqlType        |-> typ.value,
         size           |-> IF num.ok THEN Atoi(num.value) ELSE DefaultSize,
         additionalType |-> TrimSpace(add1)]

\* commonDialect.fieldCanAutoIncrement
fieldCanAutoIncrement(f) ==
    LET ai == TagSettingsGet(f, "AUTO_INCREMENT")
    IN  IF ai.ok THEN ToLower(ai.value) # Lit("false") ELSE f.IsPrimaryKey

(***************************************************************************)
(* DataTypeOf                                                              *)
(***************************************************************************)
MaxVarSize == 65532

\* lines 36-37: the tag is there, and the field is neither indexed nor the key
MustStripInverted(f) ==
    /\ TagSettingsGet(f, "AUTO_INCREMENT").ok
    /\ TagSettingsGet(f, "INDEX").ok
    /\ ~f.IsPrimaryKey

MustStripAutoIncrement(f) ==
    /\ TagSettingsGet(f, "AUTO_INCREMENT").ok
    /\ ~TagSettingsGet(f, "INDEX").ok
    /\ ~f.IsPrimaryKey

\* lines 36-40
StripAutoIncrement(f) ==
    IF MustStripAutoIncrement(f) THEN TagSettingsDelete(f, "AUTO_INCREMENT") ELSE f

\* one integer case of the switch, e.g. lines 46-52
IntegerTypeNoTag(f, base) ==
    IF fieldCanAutoIncrement(f)
    THEN [field |-> f, sqlType |-> JoinSp(base, Lit("AUTO_INCREMENT"))]
    ELSE [field |-> f, sqlType |-> base]

IntegerType(f, base) ==
    IF fieldCanAutoIncrement(f)
    THEN [field   |-> TagSettingsSet(f, "AUTO_INCREMENT", Lit("AUTO_INCREMENT")),
          sqlType |-> JoinSp(base, Lit("AUTO_INCREMENT"))]
    ELSE [field |-> f, sqlType |-> base]

\* lines 91-95 and 111-115
SizedTypeInclusive(name, size, large) ==
    IF size > 0 /\ size <= MaxVarSize
    THEN Lit(name \o "(" \o ToString(size) \o ")")
    ELSE Lit(large)

SizedType(name, size, large) ==
    IF size > 0 /\ size < MaxVarSize
    THEN Lit(name \o "(" \o ToString(size) \o ")")
    ELSE Lit(large)

\* lines 98-107
DateTimeType(f) ==
    LET p == TagSettingsGet(f, "PRECISION")
        precision == IF p.ok THEN Cat(Cat(Lit("("), p.value), Lit(")")) ELSE Empty
    IN  IF "NOT NULL" \in DOMAIN f.TagSettings \/ f.IsPrimaryKey
        THEN Cat(Lit("DATETIME"), precision)
        ELSE Cat(Cat(Lit("DATETIME"), precision), <<"", "NULL">>)

\* lines 96-108
StructTypeAnyStruct(f, dv) == DateTimeType(f)

StructType(f, dv) ==
    IF dv.Type = "time.Time" THEN DateTimeType(f) ELSE Empty

\* lines 43-117: the switch on dataValue.Kind()
InferType(f, dv, size) ==
    LET plain(t) == [field |-> f, sqlType |-> t]
        k == dv.Kind
    IN  CASE k = "Bool" -> plain(Lit("bit"))
          [] k = "Int8" -> IntegerType(f, Lit("tinyint"))
          [] k \in {"Int", "Int16", "Int32"} -> IntegerType(f, Lit("int"))
          [] k = "Uint8" -> IntegerType(f, <<"tinyint", "unsigned">>)
          [] k \in {"Uint", "Uint16", "Uint32", "Uintptr"} ->
                IntegerType(f, <<"int", "unsigned">>)
          [] k = "Int64" -> IntegerType(f, Lit("bigint"))
          [] k = "Uint64" -> IntegerType(f, <<"bigint", "unsigned">>)
          [] k \in {"Float32", "Float64"} -> plain(Lit("double"))
          [] k = "String" -> plain(SizedType("varchar", size, "longtext"))
          [] k = "Struct" -> plain(StructType(f, dv))
          [] OTHER ->
                IF IsByteArrayOrSlice(dv)
                THEN plain(SizedType("varbinary", size, "longblob"))
                ELSE plain(Empty)

\* lines 120-127
Finish(f, sqlType, additionalType) ==
    IF sqlType = Empty
    THEN [field |-> f, status |-> "panic", ret |-> Empty]
    ELSE IF TrimSpace(additionalType) = Empty
         THEN [field |-> f, status |-> "returned", ret |-> sqlType]
         ELSE [field |-> f, status |-> "returned", ret |-> JoinSp(sqlType, additionalType)]

\* the strip of lines 36-40 moved behind the switch
DataTypeOfStripLast(f) ==
    LET p   == ParseFieldStructForDialect(f)
        inf == IF p.sqlType = Empty
               THEN InferType(f, p.dataValue, p.size)
               ELSE [field |-> f, sqlType |-> p.sqlType]
    IN  Finish(StripAutoIncrement(inf.field), inf.sqlType, p.additionalType)

\* lines 31-128
DataTypeOf(f) ==
    LET p   == ParseFieldStructForDialect(f)
        f1  == StripAutoIncrement(f)
        inf == IF p.sqlType = Empty
               THEN InferType(f1, p.dataValue, p.size)
               ELSE [field |-> f1, sqlType |-> p.sqlType]
    IN  Finish(inf.field, inf.sqlType, p.additionalType)

(***************************************************************************)
(* The fields DataTypeOf is called on                                      *)
(***************************************************************************)
Absent == <<>>

AutoIncrementOptions ==
    {Absent, Lit("true"), Lit("false"), Lit("FALSE"), Lit("AUTO_INCREMENT")}
IndexOptions     == {Absent, Lit("INDEX")}
TypeOptions      == {Absent, Lit("varchar(10)"), <<"bigint", "AUTO_INCREMENT">>}
SizeOptions      == {Absent, Lit("-1"), Lit("0"), Lit("1"), Lit("100"),
                     Lit("65531"), Lit("65532"), Lit("abc")}
NotNullOptions   == {Absent, <<"NOT", "NULL">>}
PrecisionOptions == {Absent, Lit("3")}
DefaultOptions   == {Absent, Lit("0")}

MakeTags(opt) == [k \in {x \in DOMAIN opt : opt[x] # Absent} |-> opt[k]]

MakeField(dv, pk, ai, ix, ty, sz, nn, pr, df) ==
    [Value |-> dv, IsPrimaryKey |-> pk,
     TagSettings |->
        MakeTags([k \in TagKeys |->
            CASE k = "AUTO_INCREMENT" -> ai
              [] k = "INDEX" -> ix
              [] k = "TYPE" -> ty
              [] k = "SIZE" -> sz
              [] k = "NOT NULL" -> nn
              [] k = "PRECISION" -> pr
              [] k = "DEFAULT" -> df])]

Fields ==
    {MakeField(dv, pk, ai, ix, ty, sz, nn, pr, df) :
        dv \in DataValues, pk \in BOOLEAN, ai \in AutoIncrementOptions,
        ix \in IndexOptions, ty \in TypeOptions, sz \in SizeOptions,
        nn \in NotNullOptions, pr \in PrecisionOptions, df \in DefaultOptions}

NoField == [Value |-> [Kind |-> "Bool", Type |-> "builtin"],
            IsPrimaryKey |-> FALSE, TagSettings |-> MakeTags([k \in TagKeys |-> Absent])]
NoCall  == [status |-> "none", ret |-> Empty, before |-> NoField]

MaxCalls == 2

DtIdle ==
    /\ field = NoField /\ field0 = NoField
    /\ dtLast = NoCall /\ dtPrev = NoCall /\ dtCalls = 0
LimIdle == limIn = <<>> /\ limOut = <<>>
KeyIdle == keyIn = <<>> /\ keyOut = <<>> /\ keyCalls = 0
IdxIdle == idxIn = <<>> /\ idxOut = <<>>
HasIdle == catalog = <<>> /\ hasOut = <<>>

InitDataType ==
    /\ field \in Fields
    /\ field0 = field
    /\ dtLast = NoCall /\ dtPrev = NoCall /\ dtCalls = 0
    /\ LimIdle /\ KeyIdle /\ IdxIdle /\ HasIdle

\* a call d.DataTypeOf(&field); a panic ends the run
CallDataTypeOf ==
    /\ dtCalls < MaxCalls
    /\ dtLast.status # "panic"
    /\ LET r == DataTypeOf(field)
       IN  /\ field' = r.field
           /\ dtLast' = [status |-> r.status, ret |-> r.ret, before |-> field]
    /\ dtPrev' = dtLast
    /\ dtCalls' = dtCalls + 1
    /\ UNCHANGED <<field0, limVars, keyVars, idxVars, hasVars>>

NextDataType == CallDataTypeOf

SpecDataType == InitDataType /\ [][NextDataType]_vars

(***************************************************************************)
(* Claims about DataTypeOf, under SpecDataType                             *)
(***************************************************************************)
Called    == dtLast.status # "none"
Returned  == dtLast.status = "returned"
Parsed    == ParseFieldStructForDialect(dtLast.before)
HasTag(f, key) == key \in DOMAIN f.TagSettings
KeyOrIndexed(f) == f.IsPrimaryKey \/ HasTag(f, "INDEX")

\* the returned string without the additional-type modifier that line 127
\* appends to it
SqlTypePart ==
    IF Parsed.additionalType = Empty
    THEN dtLast.ret
    ELSE SubSeq(dtLast.ret, 1, Len(dtLast.ret) - Len(Parsed.additionalType))

ModifierPart ==
    IF Parsed.additionalType = Empty
    THEN Empty
    ELSE SubSeq(dtLast.ret, Len(dtLast.ret) - Len(Parsed.additionalType) + 1,
                Len(dtLast.ret))

C2_AsStated ==
    (/\ Returned
     /\ dtLast.before.Value.Kind \in IntKinds
     /\ fieldCanAutoIncrement(dtLast.before))
    => /\ EndsInAutoIncrement(dtLast.ret)
       /\ HasTag(field, "AUTO_INCREMENT")

\* C2 amended: an integer field with no explicit SQL type that qualifies under
\* the base dialect's rule and is the primary key or indexed gets an inferred
\* type ending in AUTO_INCREMENT, followed by the additional-type modifier
\* when it has one, and its AUTO_INCREMENT tag is set to AUTO_INCREMENT.
C2_AutoIncrementOnKey ==
    (/\ Called
     /\ dtLast.before.Value.Kind \in IntKinds
     /\ Parsed.sqlType = Empty
     /\ fieldCanAutoIncrement(dtLast.before)
     /\ KeyOrIndexed(dtLast.before))
    => /\ Returned
       /\ EndsInAutoIncrement(SqlTypePart)
       /\ ModifierPart = Parsed.additionalType
       /\ (Parsed.additionalType = Empty => EndsInAutoIncrement(dtLast.ret))
       /\ HasTag(field, "AUTO_INCREMENT")
       /\ field.TagSettings["AUTO_INCREMENT"] = Lit("AUTO_INCREMENT")

C2_Witness ==
    /\ Returned
    /\ dtLast.before.Value.Kind = "Uint8"
    /\ dtLast.before.IsPrimaryKey
    /\ ~HasTag(dtLast.before, "AUTO_INCREMENT")
    /\ dtLast.ret = <<"tinyint", "unsigned", "AUTO_INCREMENT", "NOT", "NULL">>
    /\ HasTag(field, "AUTO_INCREMENT")

\* C8: a string field with no explicit SQL type gets varchar(<size>) exactly
\* when 0 < size < 65532 and longtext for every other size; a byte-sequence
\* field gets varbinary(<size>) and longblob on the same thresholds.  (The
\* type is followed by the field's additional-type modifier when it has one.)
C8_SizeThresholds ==
    (/\ Called
     /\ Parsed.sqlType = Empty
     /\ \/ dtLast.before.Value.Kind = "String"
        \/ IsByteArrayOrSlice(dtLast.before.Value))
    => LET size  == Parsed.size
           isStr == dtLast.before.Value.Kind = "String"
           small == 1 <= size /\ size <= 65531
       IN  /\ Returned
           /\ ModifierPart = Parsed.additionalType
           /\ small =>
                SqlTypePart = Lit((IF isStr THEN "varchar(" ELSE "varbinary(")
                                  \o ToString(size) \o ")")
           /\ ~small =>
                SqlTypePart = Lit(IF isStr THEN "longtext" ELSE "longblob")

C8_Witness ==
    /\ Returned
    /\ dtLast.before.Value.Kind = "String"
    /\ Parsed.size = 65531
    /\ dtLast.ret = Lit("varchar(65531)")

\* the kinds the claim calls recognized
Recognized(dv) ==
    \/ dv.Kind \in {"Bool", "Float32", "Float64", "String"} \cup IntKinds
    \/ dv.Kind = "Struct" /\ dv.Type = "time.Time"
    \/ dv.Kind \in {"Slice", "Array"} /\ dv.Type = "uint8"

\* C9: DataTypeOf panics if and only if the field has no explicit SQL type and
\* its kind is not a recognized one; with an explicit SQL type it returns that
\* type with no kind inference; with a recognized kind it returns a non-empty
\* type string.
C9_PanicIffNoType ==
    Called =>
        /\ dtLast.status = "panic"
            <=> (Parsed.sqlType = Empty /\ ~Recognized(dtLast.before.Value))
        /\ Parsed.sqlType # Empty =>
            /\ Returned
            /\ SqlTypePart = Parsed.sqlType
            /\ field = StripAutoIncrement(dtLast.before)
        /\ Recognized(dtLast.before.Value) =>
            /\ Returned
            /\ dtLast.ret # Empty
            /\ SqlTypePart # Empty

C9_Witness ==
    /\ dtLast.status = "panic"
    /\ dtLast.before.Value = [Kind |-> "Struct", Type |-> "other"]
    /\ ~HasTag(dtLast.before, "TYPE")

\* C10: a second call returns what the first returned and leaves the tag
\* settings as the first left them; after any calls the AUTO_INCREMENT tag is
\* there only on a primary key or an indexed field, and nothing but the
\* AUTO_INCREMENT tag has been added, removed or changed.
C10_Idempotent ==
    /\ (dtCalls >= 2 /\ dtPrev.status = "returned") =>
            /\ Returned
            /\ dtLast.ret = dtPrev.ret
            /\ field = dtLast.before
    /\ Called =>
            /\ HasTag(field, "AUTO_INCREMENT") => KeyOrIndexed(field)
            /\ field.Value = field0.Value
            /\ field.IsPrimaryKey = field0.IsPrimaryKey
            /\ \A k \in TagKeys \ {"AUTO_INCREMENT"} :
                    /\ HasTag(field, k) <=> HasTag(field0, k)
                    /\ HasTag(field, k) => field.TagSettings[k] = field0.TagSettings[k]

C10_Witness ==
    /\ dtCalls = 2
    /\ dtPrev.status = "returned"
    /\ HasTag(field0, "AUTO_INCREMENT")
    /\ field0.TagSettings["AUTO_INCREMENT"] = Lit("true")
    /\ ~KeyOrIndexed(field0)
    /\ field0.Value.Kind = "Int"
    /\ dtLast.ret = Lit("int")
    /\ ~HasTag(field, "AUTO_INCREMENT")

(***************************************************************************)
(* LimitAndOffsetSQL                                                       *)
(*                                                                         *)
(* An argument is nil or a value; a value is modelled by the runes of      *)
(* fmt.Sprint(value), which is what parseInt reads.                        *)
(***************************************************************************)
MaxNumLen == 3
NumAlphabet == {"-", "0", "1", "a"}

RuneStrings(alphabet, n) == UNION {[1..k -> alphabet] : k \in 0..n}

Nil == [isNil |-> TRUE, text |-> <<>>]
Value(t) == [isNil |-> FALSE, text |-> t]
Arguments == {Nil} \cup {Value(t) : t \in RuneStrings(NumAlphabet, MaxNumLen)}

Digits == <<"0", "1", "2", "3", "4", "5", "6", "7", "8", "9">>
IsDigit(c) == \E i \in 1..10 : Digits[i] = c
DigitValue(c) == (CHOOSE i \in 1..10 : Digits[i] = c) - 1

RECURSIVE DigitsValue(_, _)
DigitsValue(s, base) ==
    IF s = <<>> THEN 0
    ELSE DigitsValue(SubSeq(s, 1, Len(s) - 1), base) * base + DigitValue(s[Len(s)])

\* strconv.ParseInt(s, 0, 0) on signs and decimal digits: base 0 reads a
\* leading 0 as the octal prefix
ParseInt(s) ==
    LET neg    == s # <<>> /\ s[1] = "-"
        signed == s # <<>> /\ s[1] \in {"-", "+"}
        body   == IF signed THEN Tail(s) ELSE s
        octal  == Len(body) > 1 /\ body[1] = "0"
        base   == IF octal THEN 8 ELSE 10
        digits == IF octal THEN Tail(body) ELSE body
        valid  == /\ digits # <<>>
                  /\ \A i \in 1..Len(digits) :
                        IsDigit(digits[i]) /\ DigitValue(digits[i]) < base
        n      == DigitsValue(digits, base)
    IN  IF valid
        THEN [err |-> FALSE, n |-> IF neg THEN 0 - n ELSE n]
        ELSE [err |-> TRUE, n |-> 0]

\* commonDialect.parseInt
parseInt(v) == ParseInt(v.text)

RECURSIVE FormatNat(_)
FormatNat(n) ==
    IF n < 10 THEN <<Digits[n + 1]>>
    ELSE FormatNat(n \div 10) \o <<Digits[(n % 10) + 1]>>

\* fmt.Sprintf("%d", n)
FormatInt(n) == IF n < 0 THEN <<"-">> \o FormatNat(0 - n) ELSE FormatNat(n)

LimitWord  == <<" ", "L", "I", "M", "I", "T", " ">>
OffsetWord == <<" ", "O", "F", "F", "S", "E", "T", " ">>

\* lines 149-157
OffsetClausePositive(offset) ==
    IF ~offset.isNil
    THEN LET parsedOffset == parseInt(offset)
         IN  IF parsedOffset.err
             THEN [sql |-> <<>>, err |-> TRUE, failed |-> TRUE]
             ELSE IF parsedOffset.n > 0
                  THEN [sql |-> OffsetWord \o FormatInt(parsedOffset.n),
                        err |-> FALSE, failed |-> FALSE]
                  ELSE [sql |-> <<>>, err |-> FALSE, failed |-> FALSE]
    ELSE [sql |-> <<>>, err |-> FALSE, failed |-> FALSE]

OffsetClause(offset) ==
    IF ~offset.isNil
    THEN LET parsedOffset == parseInt(offset)
         IN  IF parsedOffset.err
             THEN [sql |-> <<>>, err |-> TRUE, failed |-> TRUE]
             ELSE IF parsedOffset.n >= 0
                  THEN [sql |-> OffsetWord \o FormatInt(parsedOffset.n),
                        err |-> FALSE, failed |-> FALSE]
                  ELSE [sql |-> <<>>, err |-> FALSE, failed |-> FALSE]
    ELSE [sql |-> <<>>, err |-> FALSE, failed |-> FALSE]

\* lines 140-161
LimitAndOffsetSQL(limit, offset) ==
    IF ~limit.isNil
    THEN LET parsedLimit == parseInt(limit)
         IN  IF parsedLimit.err
             THEN [sql |-> <<>>, err |-> TRUE]
             ELSE IF parsedLimit.n >= 0
                  THEN LET sql == LimitWord \o FormatInt(parsedLimit.n)
                           off == OffsetClause(offset)
                       IN  IF off.failed
                           THEN [sql |-> <<>>, err |-> TRUE]
                           ELSE [sql |-> sql \o off.sql, err |-> FALSE]
                  ELSE [sql |-> <<>>, err |-> FALSE]
    ELSE [sql |-> <<>>, err |-> FALSE]

NoLimitCall == [called |-> FALSE, sql |-> <<>>, err |-> FALSE]

InitLimit ==
    /\ limIn \in [limit : Arguments, offset : Arguments]
    /\ limOut = NoLimitCall
    /\ DtIdle /\ KeyIdle /\ IdxIdle /\ HasIdle

CallLimitAndOffsetSQL ==
    /\ ~limOut.called
    /\ LET r == LimitAndOffsetSQL(limIn.limit, limIn.offset)
       IN  limOut' = [called |-> TRUE, sql |-> r.sql, err |-> r.err]
    /\ UNCHANGED <<limIn, dtVars, keyVars, idxVars, hasVars>>

NextLimit == CallLimitAndOffsetSQL

SpecLimit == InitLimit /\ [][NextLimit]_vars

\* the claim's cases
IsAbsent(v)     == v.isNil
IsInteger(v)    == ~v.isNil /\ ~ParseInt(v.text).err
IsNonInteger(v) == ~v.isNil /\ ParseInt(v.text).err
IntOf(v)        == ParseInt(v.text).n

\* " OFFSET " occurs in sql at position i
OffsetAt(sql, i) ==
    /\ i + Len(OffsetWord) - 1 <= Len(sql)
    /\ SubSeq(sql, i, i + Len(OffsetWord) - 1) = OffsetWord

\* C3: LimitAndOffsetSQL equals the reference: an absent limit gives "" and no
\* error; a non-integer limit gives a parse error; a negative limit gives ""
\* and no error whatever the offset; a non-negative limit L gives " LIMIT L",
\* followed by " OFFSET O" exactly when the offset is an integer O >= 0, and
\* a parse error with an empty fragment when the offset is a non-integer
\* value.  OFFSET is never emitted without LIMIT before it.
C3_LimitOffsetReference ==
    limOut.called =>
        LET l == limIn.limit
            o == limIn.offset
            limitSql == LimitWord \o FormatInt(IntOf(l))
        IN  /\ IsAbsent(l) => limOut.sql = <<>> /\ ~limOut.err
            /\ IsNonInteger(l) => limOut.sql = <<>> /\ limOut.err
            /\ (IsInteger(l) /\ IntOf(l) < 0) => limOut.sql = <<>> /\ ~limOut.err
            /\ (IsInteger(l) /\ IntOf(l) >= 0) =>
                /\ (IsInteger(o) /\ IntOf(o) >= 0) =>
                        /\ limOut.sql = limitSql \o OffsetWord \o FormatInt(IntOf(o))
                        /\ ~limOut.err
                /\ (IsAbsent(o) \/ (IsInteger(o) /\ IntOf(o) < 0)) =>
                        limOut.sql = limitSql /\ ~limOut.err
                /\ IsNonInteger(o) => limOut.sql = <<>> /\ limOut.err
            /\ \A i \in 1..Len(limOut.sql) :
                    OffsetAt(limOut.sql, i) =>
                        /\ i > Len(LimitWord)
                        /\ SubSeq(limOut.sql, 1, Len(LimitWord)) = LimitWord

C3_Witness ==
    /\ limOut.called
    /\ limIn.limit = Value(<<"1", "0">>)
    /\ limIn.offset = Value(<<"1">>)
    /\ ~limOut.err
    /\ limOut.sql = LimitWord \o <<"1", "0">> \o OffsetWord \o <<"1">>

(***************************************************************************)
(* BuildKeyName                                                            *)
(***************************************************************************)
Rep(c, n) == [i \in 1..n |-> c]

Letters == <<"a", "b", "c", "d", "e", "f", "g", "h", "i", "j", "k", "l", "m",
             "n", "o", "p", "q", "r", "s", "t", "u", "v", "w", "x", "y", "z",
             "A", "B", "C", "D", "E", "F", "G", "H", "I", "J", "K", "L", "M",
             "N", "O", "P", "Q", "R", "S", "T", "U", "V", "W", "X", "Y", "Z">>
OtherRunes == <<"_", "-", ".", "é">>
RuneTable == Digits \o Letters \o OtherRunes
RuneCode ==
    [c \in {RuneTable[i] : i \in 1..Len(RuneTable)} |->
        CHOOSE i \in 1..Len(RuneTable) : RuneTable[i] = c]

\* keyNameRegex, [^a-zA-Z0-9]+ : the runes it does not match
AlnumRunes == {Digits[i] : i \in 1..Len(Digits)} \cup {Letters[i] : i \in 1..Len(Letters)}
IsAlnum(c) == c \in AlnumRunes

\* keyNameRegex.ReplaceAllString(s, "_"): every run of disallowed runes
\* becomes one underscore.  Kept are the allowed runes and the first rune of
\* each run.
ReplaceAllDisallowed(s) ==
    LET kept(i) == IsAlnum(s[i]) \/ i = 1 \/ IsAlnum(s[i - 1])
        keep == SelectSeq([i \in 1..Len(s) |-> i], kept)
    IN  [j \in 1..Len(keep) |-> IF IsAlnum(s[keep[j]]) THEN s[keep[j]] ELSE "_"]

\* strings.Join(fields, "_")
RECURSIVE Join(_)
Join(fields) ==
    IF fields = <<>> THEN <<>>
    ELSE IF Len(fields) = 1 THEN fields[1]
         ELSE fields[1] \o <<"_">> \o Join(Tail(fields))

\* commonDialect.BuildKeyName
CommonBuildKeyName(kind, tableName, fields) ==
    ReplaceAllDisallowed(kind \o <<"_">> \o tableName \o <<"_">> \o Join(fields))

\* utf8.RuneCountInString
RuneCount(s) == Len(s)

HexDigits == <<"0", "1", "2", "3", "4", "5", "6", "7", "8", "9",
               "a", "b", "c", "d", "e", "f">>
DigestLen == 40

RECURSIVE Checksum(_, _, _)
Checksum(s, lo, hi) ==
    IF lo > hi THEN 0
    ELSE IF lo = hi THEN RuneCode[s[lo]] * lo
         ELSE LET mid == (lo + hi) \div 2
              IN  (Checksum(s, lo, mid) + 31 * Checksum(s, mid + 1, hi)) % 65521

\* fmt.Sprintf("%x", sha1 of the name): 40 hexadecimal digits that are a
\* function of the name.  SHA-1 itself is replaced by a checksum; only that
\* the digest is a fixed function of the bytes and 40 digits long is used.
Sha1Hex(s) ==
    LET h == Checksum(s, 1, Len(s))
    IN  [i \in 1..DigestLen |-> HexDigits[(((h \div i) + h * i) % 16) + 1]]

MaxKeyLen == 64
PrefixLen == 24

\* line 216 with < for <=
FitsStrict(keyName) == RuneCount(keyName) < MaxKeyLen

\* line 216
Fits(keyName) == RuneCount(keyName) <= MaxKeyLen

\* lines 224-227
DestRunes(first) ==
    LET destRunes == ReplaceAllDisallowed(first)
    IN  IF Len(destRunes) > PrefixLen THEN SubSeq(destRunes, 1, PrefixLen) ELSE destRunes

\* lines 214-230; fields[0] of an empty list is an index out of range
BuildKeyName(kind, tableName, fields) ==
    LET keyName == CommonBuildKeyName(kind, tableName, fields)
    IN  IF Fits(keyName)
        THEN [status |-> "returned", name |-> keyName]
        ELSE IF fields = <<>>
             THEN [status |-> "panic", name |-> <<>>]
             ELSE [status |-> "returned",
                   name |-> DestRunes(fields[1]) \o Sha1Hex(keyName)]

MaxTableLen == 60
MaxFields == 2
MaxKeyCalls == 2

Kinds == {<<"i", "d", "x">>, <<"u", "i", "x">>}
TableLens == {1, 20} \cup (MaxTableLen - 5..MaxTableLen)
TableNames ==
    {Rep("t", n) : n \in TableLens}
    \cup {<<"é">> \o Rep("t", n - 1) : n \in TableLens}
FieldNames ==
    {<<"i", "d">>,
     <<"u", "-", "i", "d">>,
     <<"a", "-", ".", "b">>,
     <<"é">>,
     Rep("c", 30),
     Rep("c", 23) \o <<"-", "-">> \o Rep("d", 5)}
FieldLists == UNION {[1..k -> FieldNames] : k \in 0..MaxFields}

InitKey ==
    /\ keyIn \in [kind : Kinds, tableName : TableNames, fields : FieldLists]
    /\ keyOut = <<>>
    /\ keyCalls = 0
    /\ DtIdle /\ LimIdle /\ IdxIdle /\ HasIdle

\* a call of BuildKeyName; a panic ends the run
CallBuildKeyName ==
    /\ keyCalls < MaxKeyCalls
    /\ \A i \in 1..Len(keyOut) : keyOut[i].status # "panic"
    /\ keyOut' = Append(keyOut, BuildKeyName(keyIn.kind, keyIn.tableName, keyIn.fields))
    /\ keyCalls' = keyCalls + 1
    /\ UNCHANGED <<keyIn, dtVars, limVars, idxVars, hasVars>>

NextKey == CallBuildKeyName

SpecKey == InitKey /\ [][NextKey]_vars

GenericName == CommonBuildKeyName(keyIn.kind, keyIn.tableName, keyIn.fields)
IsHex(c) == c \in {HexDigits[i] : i \in 1..16}
FirstSanitized == ReplaceAllDisallowed(keyIn.fields[1])

C5_AsStated ==
    \A i \in 1..Len(keyOut) :
        keyOut[i].status = "returned" /\ Len(keyOut[i].name) <= 64

(***************************************************************************)
(* NormalizeIndexAndColumn                                                 *)
(***************************************************************************)
LineFeed == "\n"

\* (.+) : one or more runes, none of them a line feed (no s flag)
DotPlus(t) == t # <<>> /\ \A i \in 1..Len(t) : t[i] # LineFeed

\* \((\d*)\)$
TailMatchesStar(t) ==
    /\ Len(t) >= 2
    /\ t[1] = "("
    /\ t[Len(t)] = ")"
    /\ \A i \in 2..Len(t) - 1 : IsDigit(t[i])

\* \((\d+)\)$
TailMatches(t) ==
    /\ Len(t) >= 3
    /\ t[1] = "("
    /\ t[Len(t)] = ")"
    /\ \A i \in 2..Len(t) - 1 : IsDigit(t[i])

\* dmsqlIndexRegex.FindStringSubmatch, ^(.+)\((\d+)\)$ : nil when nothing
\* matches, else the whole match and the two groups; .+ is greedy, so the
\* longest first group that lets the rest match is taken
FindStringSubmatch(s) ==
    LET splits == {i \in 1..Len(s) :
                     /\ DotPlus(SubSeq(s, 1, i))
                     /\ TailMatches(SubSeq(s, i + 1, Len(s)))}
        i == CHOOSE x \in splits : \A y \in splits : y <= x
    IN  IF splits = {} THEN <<>>
        ELSE <<s, SubSeq(s, 1, i), SubSeq(s, i + 2, Len(s) - 1)>>

\* lines 233-241
NormalizeIndexAndColumn(indexName, columnName) ==
    LET submatch == FindStringSubmatch(indexName)
    IN  IF Len(submatch) # 3
        THEN [indexName |-> indexName, columnName |-> columnName]
        ELSE [indexName  |-> submatch[2],
              columnName |-> columnName \o <<"(">> \o submatch[3] \o <<")">>]

MaxIndexLen == 7
IndexAlphabet == {"a", "(", ")", "1", LineFeed}
ColumnNames == {<<"c">>}

NoIndexCall == [called |-> FALSE, indexName |-> <<>>, columnName |-> <<>>]

InitIndex ==
    /\ idxIn \in [indexName : RuneStrings(IndexAlphabet, MaxIndexLen),
                  columnName : ColumnNames]
    /\ idxOut = NoIndexCall
    /\ DtIdle /\ LimIdle /\ KeyIdle /\ HasIdle

CallNormalizeIndexAndColumn ==
    /\ ~idxOut.called
    /\ LET r == NormalizeIndexAndColumn(idxIn.indexName, idxIn.columnName)
       IN  idxOut' = [called |-> TRUE, indexName |-> r.indexName,
                      columnName |-> r.columnName]
    /\ UNCHANGED <<idxIn, dtVars, limVars, keyVars, hasVars>>

NextIndex == CallNormalizeIndexAndColumn

SpecIndex == InitIndex /\ [][NextIndex]_vars

\* s is <prefix>(<digits>) with the "(" at position k: a non-empty prefix and
\* a non-empty run of decimal digits closing the string
HasSuffixAt(s, k) ==
    /\ k >= 2 /\ k + 2 <= Len(s)
    /\ s[k] = "("
    /\ s[Len(s)] = ")"
    /\ \A j \in k + 1..Len(s) - 1 : s[j] \in {"0", "1", "2", "3", "4", "5", "6", "7", "8", "9"}

SplitAt(k) ==
    /\ idxOut.indexName = SubSeq(idxIn.indexName, 1, k - 1)
    /\ idxOut.columnName =
            idxIn.columnName \o SubSeq(idxIn.indexName, k, Len(idxIn.indexName))
    /\ idxOut.indexName \o SubSeq(idxOut.columnName, Len(idxIn.columnName) + 1,
                                  Len(idxOut.columnName)) = idxIn.indexName

Unchanged ==
    idxOut.indexName = idxIn.indexName /\ idxOut.columnName = idxIn.columnName

\* C6 as stated: an index name <prefix>(<digits>) is split into the prefix and
\* column(<digits>); every other index name is returned unchanged.
C6_AsStated ==
    idxOut.called =>
        /\ \A k \in 1..Len(idxIn.indexName) :
                HasSuffixAt(idxIn.indexName, k) => SplitAt(k)
        /\ (\A k \in 1..Len(idxIn.indexName) : ~HasSuffixAt(idxIn.indexName, k))
                => Unchanged

\* C6 amended: an index name <prefix>(<digits>) whose prefix holds no line
\* feed is split into the prefix and column(<digits>), at the last
\* parenthesised digit group only; every other index name, one whose prefix
\* holds a line feed included, is returned unchanged.
C6_SplitsLastDigitGroup ==
    idxOut.called =>
        LET s == idxIn.indexName
            splittable(k) ==
                HasSuffixAt(s, k) /\ \A j \in 1..k - 1 : s[j] # LineFeed
        IN  /\ \A k \in 1..Len(s) : splittable(k) => SplitAt(k)
            /\ (\A k \in 1..Len(s) : ~splittable(k)) => Unchanged

C6_Witness ==
    /\ idxOut.called
    /\ idxIn.indexName = <<"a", "(", "1", ")", "(", "1", ")">>
    /\ idxOut.indexName = <<"a", "(", "1", ")">>
    /\ idxOut.columnName = <<"c", "(", "1", ")">>

(***************************************************************************)
(* HasForeignKey, HasTable, HasIndex, HasColumn                            *)
(*                                                                         *)
(* catalog[view] is the row count the catalog view holds for the arguments *)
(* of the call; a query may fail instead of yielding it.                   *)
(***************************************************************************)
MaxCount == 2
Views == {"USER_CONSTRAINTS", "USER_TABLES", "USER_INDEXS", "USER_TAB_COLUMNS"}

\* var count int; d.db.QueryRow(...).Scan(&count), its error dropped: a failed
\* query leaves count at its zero value
QueryRowScan(view, fails) == IF fails THEN 0 ELSE catalog[view]

\* return count >= 0
CountNotNegative(count) == count >= 0

\* return count > 0
CountPositive(count) == count > 0

\* lines 163-168
HasForeignKey(fails) == CountPositive(QueryRowScan("USER_CONSTRAINTS", fails))
\* lines 170-175
HasTable(fails) == CountPositive(QueryRowScan("USER_TABLES", fails))
\* lines 177-188
HasIndex(fails) == CountPositive(QueryRowScan("USER_INDEXS", fails))
\* lines 190-194
HasColumn(fails) == CountPositive(QueryRowScan("USER_TAB_COLUMNS", fails))

NoHasCall == [op |-> "none", view |-> "none", failed |-> FALSE, ret |-> FALSE]

InitHas ==
    /\ catalog \in [Views -> 0..MaxCount]
    /\ hasOut = NoHasCall
    /\ DtIdle /\ LimIdle /\ KeyIdle /\ IdxIdle

CallHasForeignKey ==
    /\ \E fails \in BOOLEAN :
        hasOut' = [op |-> "HasForeignKey", view |-> "USER_CONSTRAINTS",
                   failed |-> fails, ret |-> HasForeignKey(fails)]
    /\ UNCHANGED <<catalog, dtVars, limVars, keyVars, idxVars>>

CallHasTable ==
    /\ \E fails \in BOOLEAN :
        hasOut' = [op |-> "HasTable", view |-> "USER_TABLES",
                   failed |-> fails, ret |-> HasTable(fails)]
    /\ UNCHANGED <<catalog, dtVars, limVars, keyVars, idxVars>>

CallHasIndex ==
    /\ \E fails \in BOOLEAN :
        hasOut' = [op |-> "HasIndex", view |-> "USER_INDEXS",
                   failed |-> fails, ret |-> HasIndex(fails)]
    /\ UNCHANGED <<catalog, dtVars, limVars, keyVars, idxVars>>

CallHasColumn ==
    /\ \E fails \in BOOLEAN :
        hasOut' = [op |-> "HasColumn", view |-> "USER_TAB_COLUMNS",
                   failed |-> fails, ret |-> HasColumn(fails)]
    /\ UNCHANGED <<catalog, dtVars, limVars, keyVars, idxVars>>

NextHas == CallHasForeignKey \/ CallHasTable \/ CallHasIndex \/ CallHasColumn

SpecHas == InitHas /\ [][NextHas]_vars

\* C7: each of HasTable, HasIndex, HasColumn and HasForeignKey returns false
\* whenever its catalog query fails, and otherwise returns true if and only
\* if the count the query yields is strictly greater than zero.
C7_FalseOnErrorElseCountPositive ==
    hasOut.op # "none" =>
        /\ hasOut.failed => hasOut.ret = FALSE
        /\ ~hasOut.failed => (hasOut.ret <=> catalog[hasOut.view] >= 1)

C7_Witness ==
    /\ hasOut.op = "HasIndex"
    /\ hasOut.failed
    /\ catalog["USER_INDEXS"] = 2
    /\ hasOut.ret = FALSE

====
